---- MODULE Spec2Model ----
(***************************************************************************)
(* State-machine model of the todo application in src/src/App.tsx.         *)
(*                                                                         *)
(* A text (a title, a draft, the value of the new-todo input) is a         *)
(* sequence of one-character strings.  The value kept in localStorage is   *)
(* a JSON text, modelled as a sequence of lexical tokens; JSON.stringify   *)
(* and JSON.parse are modelled by what they do on those tokens.            *)
(***************************************************************************)
EXTENDS Integers, Sequences, FiniteSets, TLC

VARIABLES
    phase,         \* "boot": page loaded, TodoApp not yet rendered;
                   \* "running": TodoApp is mounted; "crashed": a render threw
    todos,         \* useState<Todo[]>, App.tsx:34
    filter,        \* useState<Filter>, App.tsx:35
    editingId,     \* useState<number | null>, App.tsx:36
    editValue,     \* useState<string>, App.tsx:37
    localStorage,  \* what localStorage holds under LOCAL_STORAGE_KEY
    now            \* the value Date.now() returns

vars == <<phase, todos, filter, editingId, editValue, localStorage, now>>

-----------------------------------------------------------------------------
(* Bounds of the model. *)

\* The longest list the model lets Add build, and the longest persisted list.
MaxTodos == 2

\* The last clock value of the model; the clock starts at 1 or later.
MaxClock == 2

-----------------------------------------------------------------------------
(* Texts. *)

\* The characters String.prototype.trim removes (the model's alphabet has
\* one of them).
IsSpace(c) == c = " "

RECURSIVE TrimStart(_)
TrimStart(s) == IF s # <<>> /\ IsSpace(Head(s)) THEN TrimStart(Tail(s)) ELSE s

RECURSIVE TrimEnd(_)
TrimEnd(s) ==
    IF s # <<>> /\ IsSpace(s[Len(s)])
    THEN TrimEnd(SubSeq(s, 1, Len(s) - 1))
    ELSE s

\* A plausible slip: only leading whitespace is removed.
trimLeadingOnly(s) == TrimStart(s)

\* String.prototype.trim
trim(s) == TrimEnd(TrimStart(s))

\* The texts a user types: empty, whitespace only, plain, padded with
\* whitespace, and one holding a character JSON has to escape.
Texts == { <<>>, <<" ">>, <<"a">>, <<" ", "a", " ">>, <<"\"">> }

\* The titles of the persisted lists the model starts from.
Titles == { <<"a">>, <<"\"">> }

\* type Filter and FILTERS
FILTERS == <<"All", "Active", "Completed">>

Filters == { FILTERS[i] : i \in 1..Len(FILTERS) }

\* editingId === null
NoEdit == 0

-----------------------------------------------------------------------------
(* JSON texts as token sequences. *)

\* Punctuation and the literal names true, false, null.
P(c) == [t |-> "p", c |-> c]
\* A string literal: the characters between its quotes, escapes included.
S(s) == [t |-> "s", s |-> s]
\* A number literal.
N(n) == [t |-> "n", n |-> n]

KeyId == <<"i", "d">>
KeyTitle == <<"t", "i", "t", "l", "e">>
KeyCompleted == <<"c", "o", "m", "p", "l", "e", "t", "e", "d">>

\* A plausible slip: the title is written between quotes as it is.
EscapeNothing(s) == s

\* JSON.stringify's quoting of a string: a quote or a backslash gets a
\* backslash in front of it.
RECURSIVE Escape(_)
Escape(s) ==
    IF s = <<>> THEN <<>>
    ELSE IF Head(s) \in {"\"", "\\"}
         THEN <<"\\", Head(s)>> \o Escape(Tail(s))
         ELSE <<Head(s)>> \o Escape(Tail(s))

\* JSON.parse's reading of a string literal: [ok, s]; a backslash that is
\* not followed by a quote or a backslash is a SyntaxError in this alphabet.
RECURSIVE Unescape(_)
Unescape(s) ==
    IF s = <<>> THEN [ok |-> TRUE, s |-> <<>>]
    ELSE IF Head(s) = "\\"
         THEN IF Len(s) >= 2 /\ s[2] \in {"\"", "\\"}
              THEN LET r == Unescape(SubSeq(s, 3, Len(s)))
                   IN  [ok |-> r.ok, s |-> <<s[2]>> \o r.s]
              ELSE [ok |-> FALSE, s |-> <<>>]
         ELSE IF Head(s) = "\""
              THEN [ok |-> FALSE, s |-> <<>>]
              ELSE LET r == Unescape(Tail(s))
                   IN  [ok |-> r.ok, s |-> <<Head(s)>> \o r.s]

\* JSON.stringify of one Todo: its own properties in creation order.
StringifyTodo(t) ==
    << P("{"), S(KeyId), P(":"), N(t.id), P(","),
       S(KeyTitle), P(":"), S(Escape(t.title)), P(","),
       S(KeyCompleted), P(":"), P(IF t.completed THEN "true" ELSE "false"),
       P("}") >>

RECURSIVE StringifyItems(_)
StringifyItems(ts) ==
    IF ts = <<>> THEN <<>>
    ELSE IF Len(ts) = 1 THEN StringifyTodo(ts[1])
    ELSE StringifyTodo(ts[1]) \o <<P(",")>> \o StringifyItems(Tail(ts))

\* JSON.stringify(todos)
JSONstringify(ts) == <<P("[")>> \o StringifyItems(ts) \o <<P("]")>>

(* JavaScript values JSON.parse builds. *)
JNull == [k |-> "null"]
JBool(b) == [k |-> "bool", b |-> b]
JNum(n) == [k |-> "num", n |-> n]
JStr(s) == [k |-> "str", s |-> s]
JArr(items) == [k |-> "arr", items |-> items]
\* An object: its properties as a sequence of [key, value].
JObj(props) == [k |-> "obj", props |-> props]

Fail == [ok |-> FALSE, value |-> JNull, next |-> 0]
Got(v, n) == [ok |-> TRUE, value |-> v, next |-> n]

IsP(toks, i, c) == i <= Len(toks) /\ toks[i].t = "p" /\ toks[i].c = c

\* Recursive descent over the tokens from position i: [ok, value, next].
RECURSIVE ParseValue(_, _), ParseElements(_, _, _), ParseMembers(_, _, _)
ParseValue(toks, i) ==
    IF i > Len(toks) THEN Fail
    ELSE LET tok == toks[i] IN
         IF tok.t = "n" THEN Got(JNum(tok.n), i + 1)
         ELSE IF tok.t = "s"
              THEN LET u == Unescape(tok.s)
                   IN  IF u.ok THEN Got(JStr(u.s), i + 1) ELSE Fail
         ELSE IF tok.c = "null" THEN Got(JNull, i + 1)
         ELSE IF tok.c = "true" THEN Got(JBool(TRUE), i + 1)
         ELSE IF tok.c = "false" THEN Got(JBool(FALSE), i + 1)
         ELSE IF tok.c = "["
              THEN IF IsP(toks, i + 1, "]") THEN Got(JArr(<<>>), i + 2)
                   ELSE ParseElements(toks, i + 1, <<>>)
         ELSE IF tok.c = "{"
              THEN IF IsP(toks, i + 1, "}") THEN Got(JObj(<<>>), i + 2)
                   ELSE ParseMembers(toks, i + 1, <<>>)
         ELSE Fail

\* The elements of an array after "[" or ",", up to and including "]".
ParseElements(toks, i, acc) ==
    LET r == ParseValue(toks, i) IN
    IF ~r.ok THEN Fail
    ELSE IF IsP(toks, r.next, ",")
         THEN ParseElements(toks, r.next + 1, Append(acc, r.value))
    ELSE IF IsP(toks, r.next, "]")
         THEN Got(JArr(Append(acc, r.value)), r.next + 1)
    ELSE Fail

\* The members of an object after "{" or ",", up to and including "}".
ParseMembers(toks, i, acc) ==
    IF ~(i <= Len(toks) /\ toks[i].t = "s" /\ IsP(toks, i + 1, ":")) THEN Fail
    ELSE LET key == Unescape(toks[i].s)
             r == ParseValue(toks, i + 2)
         IN  IF ~key.ok \/ ~r.ok THEN Fail
             ELSE LET acc2 == Append(acc, [key |-> key.s, value |-> r.value]) IN
                  IF IsP(toks, r.next, ",")
                  THEN ParseMembers(toks, r.next + 1, acc2)
                  ELSE IF IsP(toks, r.next, "}")
                       THEN Got(JObj(acc2), r.next + 1)
                       ELSE Fail

\* JSON.parse(text): [ok, value]; ok = FALSE is a thrown SyntaxError.  The
\* whole text must be one value.
JSONparse(toks) ==
    LET r == ParseValue(toks, 1) IN
    IF r.ok /\ r.next = Len(toks) + 1
    THEN [ok |-> TRUE, value |-> r.value]
    ELSE [ok |-> FALSE, value |-> JNull]

-----------------------------------------------------------------------------
(* Storage. *)

\* localStorage.getItem(LOCAL_STORAGE_KEY) === null
Absent == [present |-> FALSE, text |-> <<>>]
Stored(text) == [present |-> TRUE, text |-> text]

\* saveTodos(todos): what localStorage holds under the key afterwards.
saveTodos(ts) == Stored(JSONstringify(ts))

\* loadTodos(): the JavaScript value it returns.  A missing key and the
\* empty string are falsy, so '[]' is parsed in their place; a SyntaxError
\* is caught and gives [].  Whatever JSON.parse returns is returned as is.
loadTodos ==
    LET text == IF ~localStorage.present \/ localStorage.text = <<>>
                THEN <<P("["), P("]")>>
                ELSE localStorage.text
        r == JSONparse(text)
    IN  IF r.ok THEN r.value ELSE JArr(<<>>)

\* The value of property key of object v (the last one of that name), or
\* JNull standing for undefined when there is none.
Prop(v, key) ==
    LET is == { i \in 1..Len(v.props) : v.props[i].key = key }
    IN  v.props[CHOOSE i \in is : \A j \in is : j <= i].value

\* v is an object with exactly the fields of type Todo, of their types.
IsTodo(v) ==
    /\ v.k = "obj"
    /\ { v.props[i].key : i \in 1..Len(v.props) } = {KeyId, KeyTitle, KeyCompleted}
    /\ Prop(v, KeyId).k = "num"
    /\ Prop(v, KeyTitle).k = "str"
    /\ Prop(v, KeyCompleted).k = "bool"

AsTodo(v) ==
    [id |-> Prop(v, KeyId).n, title |-> Prop(v, KeyTitle).s,
     completed |-> Prop(v, KeyCompleted).b]

IsTodoArray(v) == v.k = "arr" /\ \A i \in 1..Len(v.items) : IsTodo(v.items[i])

\* The first render throws a TypeError: todos.filter is not a function of a
\* value that is no array (null has no properties at all), and t.completed
\* cannot be read of a null element.
RenderThrows(v) ==
    IF v.k # "arr" THEN TRUE
    ELSE \E i \in 1..Len(v.items) : v.items[i].k = "null"

-----------------------------------------------------------------------------
(* The derived view, recomputed by every render. *)

Passes(f, t) ==
    IF f = "All" THEN TRUE ELSE IF f = "Active" THEN ~t.completed ELSE t.completed

\* A plausible slip: the Active and Completed predicates are swapped.
filteredTodosSwapped == SelectSeq(todos, LAMBDA t : Passes(filter, [t EXCEPT !.completed = ~@]))

filteredTodos == SelectSeq(todos, LAMBDA t : Passes(filter, t))

activeCount == Len(SelectSeq(todos, LAMBDA t : ~t.completed))

completedCount == Len(SelectSeq(todos, LAMBDA t : t.completed))

\* {todos.length > 0 && <section className="main">...}: the toggle-all
\* checkbox and the list are rendered
toggleAllRendered == Len(todos) > 0

\* A plausible slip: checked as soon as some task is completed.
toggleAllCheckedWhenAnyDone == completedCount > 0

\* checked={activeCount === 0} of the toggle-all checkbox
toggleAllChecked == activeCount = 0

-----------------------------------------------------------------------------
(* Initial states: the page has loaded, TodoApp has not rendered yet. *)

\* Well-formed persisted lists: written by an earlier session, so in
\* creation order with ids below the present clock value.
RECURSIVE ListsOf(_)
ListsOf(n) ==
    IF n = 0 THEN { <<>> }
    ELSE LET shorter == ListsOf(n - 1) IN
         shorter \cup
         { Append(l, [id |-> i, title |-> ti, completed |-> c]) :
             l \in { m \in shorter : Len(m) = n - 1 },
             i \in 1..(MaxClock - 1), ti \in Titles, c \in BOOLEAN }

Increasing(l) == \A i \in 1..Len(l) : \A j \in 1..Len(l) : i < j => l[i].id < l[j].id

PersistedLists == { l \in ListsOf(MaxTodos) : Increasing(l) }

\* Stored values that are no serialized list of tasks: the empty string, a
\* truncated text, and well-formed JSON of another shape.
CorruptValues ==
    { Stored(<<>>),
      Stored(<<P("["), P("{"), S(KeyId), P(":")>>),
      Stored(<<P("null")>>),
      Stored(<<N(7)>>),
      Stored(<<P("{"), P("}")>>),
      Stored(<<P("["), P("null"), P("]")>>) }

StoredValues ==
    {Absent} \cup CorruptValues \cup { saveTodos(l) : l \in PersistedLists }

\* The stored value is the serialization of a list of Todo records.
WellFormedStored(sv) == \E l \in PersistedLists : sv = saveTodos(l)

Init ==
    /\ phase = "boot"
    /\ todos = <<>>
    /\ filter = "All"
    /\ editingId = NoEdit
    /\ editValue = <<>>
    /\ localStorage \in StoredValues
    /\ now \in 1..MaxClock
    /\ \A l \in PersistedLists :
         localStorage = saveTodos(l) => \A i \in 1..Len(l) : l[i].id < now

-----------------------------------------------------------------------------
(* TodoApp's first render and its effect. *)

\* A plausible slip: the effect does not run again when todos changes.
setTodosWithoutEffect(next) ==
    /\ todos' = next
    /\ UNCHANGED localStorage

\* setTodos(next), the render it causes, and the effect on [todos].
setTodos(next) ==
    /\ todos' = next
    /\ localStorage' = saveTodos(next)

\* useState(loadTodos()), useState('All'), useState(null), useState(''),
\* the first render, then useEffect's saveTodos(todos).
TodoApp ==
    /\ phase = "boot"
    /\ LET v == loadTodos IN
       \/ /\ IsTodoArray(v)
          /\ phase' = "running"
          /\ setTodos([i \in 1..Len(v.items) |-> AsTodo(v.items[i])])
          /\ filter' = "All"
          /\ editingId' = NoEdit
          /\ editValue' = <<>>
          /\ UNCHANGED now
       \/ /\ ~IsTodoArray(v)
          /\ RenderThrows(v)
          /\ phase' = "crashed"
          /\ UNCHANGED <<todos, filter, editingId, editValue, localStorage, now>>

-----------------------------------------------------------------------------
(* The handlers.  Each is the whole handling of one event: the state        *)
(* setters it calls, the render that follows and, when setTodos was         *)
(* called, the effect that saves the list.                                  *)

\* { id: Date.now(), title: value, completed: false }
NewTodo(value) == [id |-> now, title |-> value, completed |-> FALSE]

\* A plausible slip: the matching task is marked completed, not flipped.
ToggledToCompleted(ts, id) ==
    [i \in 1..Len(ts) |-> IF ts[i].id = id THEN [ts[i] EXCEPT !.completed = TRUE] ELSE ts[i]]

\* todos.map(t => t.id === id ? { ...t, completed: !t.completed } : t)
Toggled(ts, id) ==
    [i \in 1..Len(ts) |-> IF ts[i].id = id THEN [ts[i] EXCEPT !.completed = ~@] ELSE ts[i]]

\* A plausible slip: !== written as <, so later tasks go as well.
WithoutFromId(ts, id) == SelectSeq(ts, LAMBDA t : t.id < id)

\* todos.filter(t => t.id !== id)
Without(ts, id) == SelectSeq(ts, LAMBDA t : t.id # id)

\* A plausible slip: the id is not compared, every task gets the title.
RetitledAll(ts, id, val) == [i \in 1..Len(ts) |-> [ts[i] EXCEPT !.title = val]]

\* todos.map(t => t.id === id ? { ...t, title: val } : t)
Retitled(ts, id, val) ==
    [i \in 1..Len(ts) |-> IF ts[i].id = id THEN [ts[i] EXCEPT !.title = val] ELSE ts[i]]

\* A plausible slip: the predicate of the filter is inverted.
CompletedOnly(ts) == SelectSeq(ts, LAMBDA t : t.completed)

\* todos.filter(t => !t.completed)
ActiveOnly(ts) == SelectSeq(ts, LAMBDA t : ~t.completed)

\* A plausible slip: only the tasks the filter shows are marked.
AllMarkedVisibleOnly(ts, checked) ==
    [i \in 1..Len(ts) |->
        IF Passes(filter, ts[i]) THEN [ts[i] EXCEPT !.completed = checked] ELSE ts[i]]

\* todos.map(t => ({ ...t, completed: checked }))
AllMarked(ts, checked) == [i \in 1..Len(ts) |-> [ts[i] EXCEPT !.completed = checked]]

\* value is the text in the new-todo input when the form is submitted (the
\* input is uncontrolled; what was typed before the submit is the input).
handleAddTodo(value) ==
    /\ phase = "running"
    /\ LET trimmed == trim(value) IN
       IF trimmed # <<>>
       THEN setTodos(Append(todos, NewTodo(trimmed)))
       ELSE UNCHANGED <<todos, localStorage>>
    /\ UNCHANGED <<phase, filter, editingId, editValue, now>>

handleToggle(id) ==
    /\ phase = "running"
    /\ setTodos(Toggled(todos, id))
    /\ UNCHANGED <<phase, filter, editingId, editValue, now>>

handleDelete(id) ==
    /\ phase = "running"
    /\ setTodos(Without(todos, id))
    /\ UNCHANGED <<phase, filter, editingId, editValue, now>>

handleEditStart(todo) ==
    /\ phase = "running"
    /\ editingId' = todo.id
    /\ editValue' = todo.title
    /\ UNCHANGED <<phase, todos, filter, localStorage, now>>

\* value is e.target.value
handleEditChange(value) ==
    /\ phase = "running"
    /\ editValue' = value
    /\ UNCHANGED <<phase, todos, filter, editingId, localStorage, now>>

\* A plausible slip: the draft is committed untrimmed.
handleEditSubmitUntrimmed(id) ==
    /\ phase = "running"
    /\ IF trim(editValue) # <<>>
       THEN setTodos(Retitled(todos, id, editValue))
       ELSE setTodos(Without(todos, id))
    /\ editingId' = NoEdit
    /\ editValue' = <<>>
    /\ UNCHANGED <<phase, filter, now>>

\* A plausible slip: an empty draft is stored as the title.
handleEditSubmitKeepsEmpty(id) ==
    /\ phase = "running"
    /\ setTodos(Retitled(todos, id, trim(editValue)))
    /\ editingId' = NoEdit
    /\ editValue' = <<>>
    /\ UNCHANGED <<phase, filter, now>>

\* A plausible slip: an empty draft only leaves edit mode.
handleEditSubmitIgnoresEmpty(id) ==
    /\ phase = "running"
    /\ LET val == trim(editValue) IN
       IF val # <<>>
       THEN setTodos(Retitled(todos, id, val))
       ELSE setTodos(todos)
    /\ editingId' = NoEdit
    /\ editValue' = <<>>
    /\ UNCHANGED <<phase, filter, now>>

handleEditSubmit(id) ==
    /\ phase = "running"
    /\ LET val == trim(editValue) IN
       IF val # <<>>
       THEN setTodos(Retitled(todos, id, val))
       ELSE setTodos(Without(todos, id))
    /\ editingId' = NoEdit
    /\ editValue' = <<>>
    /\ UNCHANGED <<phase, filter, now>>

Keys == {"Enter", "Escape", "a"}

\* A plausible slip: Escape commits the draft as Enter does.
handleEditKeyDownEscapeCommits(key, id) ==
    IF key \in {"Enter", "Escape"} THEN handleEditSubmit(id)
    ELSE phase = "running" /\ UNCHANGED vars

handleEditKeyDown(key, id) ==
    IF key = "Enter" THEN handleEditSubmit(id)
    ELSE IF key = "Escape"
         THEN /\ phase = "running"
              /\ editingId' = NoEdit
              /\ editValue' = <<>>
              /\ UNCHANGED <<phase, todos, filter, localStorage, now>>
         ELSE phase = "running" /\ UNCHANGED vars

handleEditBlur(id) == handleEditSubmit(id)

handleClearCompleted ==
    /\ phase = "running"
    /\ setTodos(ActiveOnly(todos))
    /\ UNCHANGED <<phase, filter, editingId, editValue, now>>

\* checked is e.target.checked
handleMarkAll(checked) ==
    /\ phase = "running"
    /\ setTodos(AllMarked(todos, checked))
    /\ UNCHANGED <<phase, filter, editingId, editValue, now>>

setCurrentFilter(f) ==
    /\ phase = "running"
    /\ filter' = f
    /\ UNCHANGED <<phase, todos, editingId, editValue, localStorage, now>>

\* Date.now() moves on between events.
Tick ==
    /\ now < MaxClock
    /\ now' = now + 1
    /\ UNCHANGED <<phase, todos, filter, editingId, editValue, localStorage>>

-----------------------------------------------------------------------------
(* The events the rendered view can deliver. *)

\* The rows of <ul className="todo-list">, rendered when todos.length > 0.
Rows == 1..Len(filteredTodos)

\* A plausible slip: the toggle and the label are rendered in every state.
ShowsViewControlsAlways == TRUE

\* {!editingId && ...}: the toggle checkbox and the label of a row
ShowsViewControls == editingId = NoEdit

\* {editingId === todo.id && ...}: the edit input of row i
ShowsEditInput(i) == editingId = filteredTodos[i].id

\* The model stops adding at MaxTodos tasks.
CanAdd(value) == trim(value) = <<>> \/ Len(todos) < MaxTodos

SubmitNewTodo == \E value \in Texts : CanAdd(value) /\ handleAddTodo(value)

ClickToggle == \E i \in Rows : ShowsViewControls /\ handleToggle(filteredTodos[i].id)

DoubleClickLabel == \E i \in Rows : ShowsViewControls /\ handleEditStart(filteredTodos[i])

ClickDestroy == \E i \in Rows : handleDelete(filteredTodos[i].id)

ChangeEdit == \E i \in Rows : \E value \in Texts : ShowsEditInput(i) /\ handleEditChange(value)

KeyDownEdit ==
    \E i \in Rows : \E key \in Keys :
        ShowsEditInput(i) /\ handleEditKeyDown(key, filteredTodos[i].id)

BlurEdit == \E i \in Rows : ShowsEditInput(i) /\ handleEditBlur(filteredTodos[i].id)

\* A click on the controlled checkbox delivers the opposite of what it shows.
ClickToggleAll == toggleAllRendered /\ handleMarkAll(~toggleAllChecked)

ClickFilter == \E f \in Filters : Len(todos) > 0 /\ setCurrentFilter(f)

ClickClearCompleted == Len(todos) > 0 /\ completedCount > 0 /\ handleClearCompleted

Next ==
    \/ TodoApp
    \/ Tick
    \/ SubmitNewTodo
    \/ ClickToggle
    \/ DoubleClickLabel
    \/ ClickDestroy
    \/ ChangeEdit
    \/ KeyDownEdit
    \/ BlurEdit
    \/ ClickToggleAll
    \/ ClickFilter
    \/ ClickClearCompleted

Spec == Init /\ [][Next]_vars

-----------------------------------------------------------------------------
(* The operations of the store called directly, with any argument: an id   *)
(* that matches a task or not, either value of checked, any task of the    *)
(* list, in any edit state.                                                *)

Ids == 1..MaxClock

Add == \E value \in Texts : CanAdd(value) /\ handleAddTodo(value)

Toggle == \E id \in Ids : handleToggle(id)

Delete == \E id \in Ids : handleDelete(id)

BeginEdit == \E i \in 1..Len(todos) : handleEditStart(todos[i])

ChangeDraft == \E value \in Texts : handleEditChange(value)

CommitEdit == \E id \in Ids : handleEditSubmit(id)

EditKey == \E id \in Ids : \E key \in Keys : handleEditKeyDown(key, id)

EditBlur == \E id \in Ids : handleEditBlur(id)

ClearCompleted == handleClearCompleted

SetAllCompleted == \E checked \in BOOLEAN : handleMarkAll(checked)

SetFilter == \E f \in Filters : setCurrentFilter(f)

NextOps ==
    \/ TodoApp
    \/ Tick
    \/ Add
    \/ Toggle
    \/ Delete
    \/ BeginEdit
    \/ ChangeDraft
    \/ CommitEdit
    \/ EditKey
    \/ EditBlur
    \/ ClearCompleted
    \/ SetAllCompleted
    \/ SetFilter

SpecOps == Init /\ [][NextOps]_vars

-----------------------------------------------------------------------------
(* Properties. *)

Running == phase = "running"

\* t has no whitespace at either end and is not empty.
TrimmedNonEmpty(t) == t # <<>> /\ ~IsSpace(t[1]) /\ ~IsSpace(t[Len(t)])

\* t is v without the whitespace at its two ends, said without trim.
IsTrimOf(t, v) ==
    /\ t = <<>> \/ TrimmedNonEmpty(t)
    /\ \E a \in 0..Len(v) : \E b \in 0..(Len(v) - a) :
         /\ t = SubSeq(v, a + 1, Len(v) - b)
         /\ \A i \in (1..a) \cup ((Len(v) - b + 1)..Len(v)) : IsSpace(v[i])

\* sub is the tasks of ts at the positions pos, in the order of ts.
IsSubsequenceAt(sub, ts, pos) ==
    /\ Len(sub) = Cardinality(pos)
    /\ \A k \in 1..Len(sub) :
         sub[k] = ts[CHOOSE i \in pos : Cardinality({ j \in pos : j <= i }) = k]

\* C1: in every running state any two distinct tasks of the list have
\* different ids.
C1_UniqueIds ==
    Running => \A i \in 1..Len(todos) : \A j \in 1..Len(todos) :
                   i # j => todos[i].id # todos[j].id

\* C2: once TodoApp is mounted, between any two events localStorage holds
\* the serialization of the whole current list.
C2_StorageIsCurrentList ==
    Running => localStorage = Stored(JSONstringify(todos))

\* C2's case: a list changed by this session (a task added at the last
\* clock value, another completed) is what storage holds.
C2_Witness ==
    /\ Running
    /\ Len(todos) = 2
    /\ todos[1].completed
    /\ todos[2].id = MaxClock
    /\ localStorage = Stored(JSONstringify(todos))

\* C3: for every stored value that is not a well-formed serialized list of
\* tasks, loadTodos yields the empty list.
C3_LoadYieldsEmptyOnCorrupt ==
    (phase = "boot" /\ ~WellFormedStored(localStorage)) => loadTodos = JArr(<<>>)

\* C4: every task of the list, and every task of the list that storage
\* holds, has a title that is not empty and has no whitespace at its ends.
C4_TitlesTrimmedNonEmpty ==
    Running =>
        /\ \A i \in 1..Len(todos) : TrimmedNonEmpty(todos[i].title)
        /\ LET v == loadTodos IN
           /\ IsTodoArray(v)
           /\ Len(v.items) = Len(todos)
           /\ \A i \in 1..Len(v.items) : TrimmedNonEmpty(AsTodo(v.items[i]).title)

\* C4's case: a task added in this session (its id is the last clock value)
\* next to a task being edited with a draft that is only whitespace.
C4_Witness ==
    /\ Running
    /\ Len(todos) = 2
    /\ todos[2].id = MaxClock
    /\ editingId = todos[1].id
    /\ editValue = <<" ">>

\* What C5 says of one Add step.
AddAppendsTrimmed(value) ==
    IF \E c \in 1..Len(value) : ~IsSpace(value[c])
    THEN /\ Len(todos') = Len(todos) + 1
         /\ SubSeq(todos', 1, Len(todos)) = todos
         /\ IsTrimOf(todos'[Len(todos')].title, value)
         /\ todos'[Len(todos')].title # <<>>
         /\ todos'[Len(todos')].completed = FALSE
    ELSE todos' = todos

\* C5: an Add whose text trims to something non-empty appends one task with
\* the trimmed text as title and completed = false after the tasks already
\* there; an Add of empty or whitespace-only text leaves the list as it is.
\* In every running state, for every text: Add can be taken and no Add
\* step does otherwise.
C5_AddAppendsTrimmed ==
    Running =>
        \A value \in Texts :
            /\ ENABLED handleAddTodo(value)
            /\ ~ENABLED (handleAddTodo(value) /\ ~AddAppendsTrimmed(value))

\* C5's case: a padded text can be added after a task that is there.
C5_Witness ==
    /\ Running
    /\ Len(todos) = 1
    /\ ENABLED (handleAddTodo(<<" ", "a", " ">>) /\ Len(todos') = 2)

\* The list is left without the tasks of that id, the others kept in order.
LeavesListWithout(id) == todos' = SelectSeq(todos, LAMBDA t : t.id # id)

\* C6: CommitEdit(id) with a draft that trims to empty and Delete(id) both
\* produce the list without the tasks of that id, the others kept in order:
\* in every running state and for every id, matching or not, both can be
\* taken and neither has another outcome.
C6_EmptyCommitIsDelete ==
    Running =>
        \A id \in Ids :
            /\ ENABLED handleDelete(id)
            /\ ~ENABLED (handleDelete(id) /\ ~LeavesListWithout(id))
            /\ (\A c \in 1..Len(editValue) : IsSpace(editValue[c])) =>
                  /\ ENABLED handleEditSubmit(id)
                  /\ ~ENABLED (handleEditSubmit(id) /\ ~LeavesListWithout(id))

\* C6's case: a whitespace-only draft on a task of a two-task list, whose
\* commit removes that task.
C6_Witness ==
    /\ Running
    /\ Len(todos) = 2
    /\ editValue = <<" ">>
    /\ \E id \in Ids :
         /\ editingId = id
         /\ ENABLED (handleEditSubmit(id) /\ Len(todos') = 1)

\* C7: filteredTodos is the tasks passing the filter, in list order;
\* activeCount and completedCount count the tasks with completed = false and
\* completed = true, and add up to the length of the list.
C7_DerivedView ==
    Running =>
        /\ IsSubsequenceAt(filteredTodos, todos,
               { i \in 1..Len(todos) :
                   \/ filter = "All"
                   \/ filter = "Active" /\ ~todos[i].completed
                   \/ filter = "Completed" /\ todos[i].completed })
        /\ activeCount = Cardinality({ i \in 1..Len(todos) : ~todos[i].completed })
        /\ completedCount = Cardinality({ i \in 1..Len(todos) : todos[i].completed })
        /\ activeCount + completedCount = Len(todos)

\* C7's case, the scenario: two tasks added, the first toggled, filter
\* Active: the second task alone is shown, one active, one completed.
C7_Witness ==
    /\ Running
    /\ Len(todos) = 2
    /\ todos[1].completed /\ ~todos[2].completed
    /\ todos[1].title # todos[2].title
    /\ filter = "Active"
    /\ filteredTodos = <<todos[2]>>
    /\ activeCount = 1 /\ completedCount = 1

\* The toggle-all checkbox is on the page and shows as checked.
ToggleAllDisplayedChecked == toggleAllRendered /\ toggleAllChecked

\* C8 as stated: the control displays as checked exactly when no task is
\* active, the empty list included.
C8_CheckedIffNoActive_Original ==
    Running => (ToggleAllDisplayedChecked <=> \A i \in 1..Len(todos) : todos[i].completed)

\* C8 amended: the control is rendered exactly when the list is not empty
\* (with an empty list there is no control to show as checked), and when
\* rendered it is checked exactly when no task is active.
C8_CheckedIffNoActiveWhenRendered ==
    Running =>
        /\ toggleAllRendered <=> todos # <<>>
        /\ toggleAllRendered =>
              (toggleAllChecked <=> \A i \in 1..Len(todos) : todos[i].completed)

\* C8's case: a list of two completed tasks shows the control checked.
C8_Witness ==
    /\ Running
    /\ Len(todos) = 2
    /\ \A i \in 1..Len(todos) : todos[i].completed
    /\ ToggleAllDisplayedChecked

\* What C9 says of one SetAllCompleted step.
MarksAll(checked) ==
    /\ Len(todos') = Len(todos)
    /\ \A i \in 1..Len(todos) :
         /\ todos'[i].id = todos[i].id
         /\ todos'[i].title = todos[i].title
         /\ todos'[i].completed = checked
    /\ checked => activeCount' = 0
    /\ ~checked => completedCount' = 0

\* C9: SetAllCompleted(checked) keeps length, order, ids and titles and
\* sets every completed flag to checked, so activeCount is 0 after true and
\* completedCount is 0 after false: in every running state and for both
\* values it can be taken and has no other outcome.
C9_MarkAll ==
    Running =>
        \A checked \in BOOLEAN :
            /\ ENABLED handleMarkAll(checked)
            /\ ~ENABLED (handleMarkAll(checked) /\ ~MarksAll(checked))

\* C9's case: a list with an active and a completed task, a filter that
\* hides one of them, and a SetAllCompleted that changes the list.
C9_Witness ==
    /\ Running
    /\ Len(todos) = 2
    /\ activeCount = 1 /\ completedCount = 1
    /\ filter = "Completed"
    /\ ENABLED (handleMarkAll(TRUE) /\ todos' # todos)

\* What C10 says of one ClearCompleted step.
KeepsActiveInOrder ==
    /\ IsSubsequenceAt(todos', todos, { i \in 1..Len(todos) : ~todos[i].completed })
    /\ completedCount' = 0

\* C10: ClearCompleted leaves exactly the tasks that were active, in their
\* order, so completedCount is 0; and on a list with no completed task
\* (such as the one it leaves) ClearCompleted changes nothing.
C10_ClearCompleted ==
    Running =>
        /\ ENABLED handleClearCompleted
        /\ ~ENABLED (handleClearCompleted /\ ~KeepsActiveInOrder)
        /\ completedCount = 0 => ~ENABLED (handleClearCompleted /\ todos' # todos)

\* C10's case: a completed task before an active one, and a ClearCompleted
\* that removes the first and keeps the second.
C10_Witness ==
    /\ Running
    /\ Len(todos) = 2
    /\ todos[1].completed /\ ~todos[2].completed
    /\ ENABLED (handleClearCompleted /\ todos' = <<todos[2]>>)

\* What one Toggle(id) step does: the tasks of that id have their completed
\* flag flipped, everything else is as before.
FlipsMatching(id) ==
    /\ Len(todos') = Len(todos)
    /\ \A i \in 1..Len(todos) :
         /\ todos'[i].id = todos[i].id
         /\ todos'[i].title = todos[i].title
         /\ todos'[i].completed = (IF todos[i].id = id THEN ~todos[i].completed
                                   ELSE todos[i].completed)

\* C11: Toggle(id) twice, as two events, leaves the list as it was before
\* the first.  In every running state and for every id: Toggle(id) can be
\* taken, flips exactly the flags of the tasks of that id, and the list it
\* leaves is one that the same flip turns back into the present list.
C11_ToggleTwice ==
    Running =>
        \A id \in Ids :
            /\ ENABLED handleToggle(id)
            /\ ~ENABLED (handleToggle(id) /\ ~FlipsMatching(id))
            /\ ~ENABLED (handleToggle(id) /\ Toggled(todos', id) # todos)

\* C11's case: a list of an active and a completed task where Toggle of
\* the first task's id changes the list.
C11_Witness ==
    /\ Running
    /\ Len(todos) = 2
    /\ ~todos[1].completed /\ todos[2].completed
    /\ todos[1].id # todos[2].id
    /\ ENABLED (handleToggle(todos[1].id) /\ todos'[1].completed /\ todos'[2] = todos[2])

\* C12: Delete(id) removes the tasks of that id and keeps the others in
\* order; a second Delete(id) changes nothing.  In every running state and
\* for every id: Delete(id) can be taken and leaves the list without that
\* id, a list on which removing that id again gives the same list; and
\* where no task has the id, Delete(id) cannot change the list.
C12_DeleteTwice ==
    Running =>
        \A id \in Ids :
            /\ ENABLED handleDelete(id)
            /\ ~ENABLED (handleDelete(id) /\
                           ~(/\ IsSubsequenceAt(todos', todos,
                                    { i \in 1..Len(todos) : todos[i].id # id })
                             /\ \A i \in 1..Len(todos') : todos'[i].id # id
                             /\ Without(todos', id) = todos'))
            /\ (\A i \in 1..Len(todos) : todos[i].id # id) =>
                  ~ENABLED (handleDelete(id) /\ todos' # todos)

\* C12's case: two tasks of different ids, Delete of the first one's id
\* leaves the second.
C12_Witness ==
    /\ Running
    /\ Len(todos) = 2
    /\ todos[1].id # todos[2].id
    /\ ENABLED (handleDelete(todos[1].id) /\ todos' = <<todos[2]>>)

\* The step ends with the app running and the list and what storage holds
\* as they were.
LeavesListAsIs ==
    /\ phase' = "running"
    /\ todos' = todos
    /\ localStorage' = localStorage

\* C13: with an id that matches no task, Toggle, Delete and CommitEdit can
\* be taken, end with the app running and leave the list unchanged; in
\* every running state every operation, with any argument, can be taken and
\* ends with the app running; and no step leaves the running state.
C13_UnmatchedIdIsNoOp ==
    /\ [](Running =>
            /\ \A id \in Ids :
                 (\A i \in 1..Len(todos) : todos[i].id # id) =>
                    /\ ENABLED (handleToggle(id) /\ LeavesListAsIs)
                    /\ ~ENABLED (handleToggle(id) /\ ~LeavesListAsIs)
                    /\ ENABLED (handleDelete(id) /\ LeavesListAsIs)
                    /\ ~ENABLED (handleDelete(id) /\ ~LeavesListAsIs)
                    /\ ENABLED (handleEditSubmit(id) /\ LeavesListAsIs)
                    /\ ~ENABLED (handleEditSubmit(id) /\ ~LeavesListAsIs)
            /\ \A id \in Ids :
                 /\ ENABLED (handleToggle(id) /\ phase' = "running")
                 /\ ENABLED (handleDelete(id) /\ phase' = "running")
                 /\ ENABLED (handleEditSubmit(id) /\ phase' = "running")
                 /\ ENABLED (handleEditBlur(id) /\ phase' = "running")
                 /\ \A key \in Keys :
                      ENABLED (handleEditKeyDown(key, id) /\ phase' = "running")
            /\ \A value \in Texts :
                 /\ ENABLED (handleAddTodo(value) /\ phase' = "running")
                 /\ ENABLED (handleEditChange(value) /\ phase' = "running")
            /\ \A i \in 1..Len(todos) :
                 ENABLED (handleEditStart(todos[i]) /\ phase' = "running")
            /\ \A checked \in BOOLEAN :
                 ENABLED (handleMarkAll(checked) /\ phase' = "running")
            /\ \A f \in Filters : ENABLED (setCurrentFilter(f) /\ phase' = "running")
            /\ ENABLED (handleClearCompleted /\ phase' = "running"))
    /\ [][phase = "running" => phase' = "running"]_vars

\* C13's case: a task is being edited with a non-empty draft, and some id
\* matches no task of the non-empty list.
C13_Witness ==
    /\ Running
    /\ Len(todos) = 2
    /\ editingId # NoEdit
    /\ editValue = <<"a">>
    /\ todos[1].title # <<"a">>
    /\ \E id \in Ids :
         /\ \A i \in 1..Len(todos) : todos[i].id # id
         /\ ENABLED (handleEditSubmit(id) /\ todos' = todos /\ editingId' = NoEdit)

\* The tasks that loadTodos reads from what storage holds now.
LoadedList ==
    LET v == loadTodos
    IN  [i \in 1..Len(v.items) |-> AsTodo(v.items[i])]

\* loadTodos reads exactly the list l from what storage holds now.
LoadsBack(l) ==
    /\ IsTodoArray(loadTodos)
    /\ LET loaded == LoadedList IN
       /\ Len(loaded) = Len(l)
       /\ \A i \in 1..Len(l) :
            /\ loaded[i].id = l[i].id
            /\ loaded[i].title = l[i].title
            /\ loaded[i].completed = l[i].completed

\* C14: loading what was persisted for a list gives the list back: same
\* length, same order, same id, title and completed of every task. While the
\* app runs, storage holds what was persisted for the current list and
\* loadTodos reads that list from it; before the first render, whenever
\* storage holds what was persisted for a list l, loadTodos reads exactly l.
C14_PersistLoadRoundTrip ==
    /\ Running => (localStorage = saveTodos(todos) /\ LoadsBack(todos))
    /\ phase = "boot" =>
         \A l \in PersistedLists : localStorage = saveTodos(l) => LoadsBack(l)

\* C14's case: a list of two tasks, one completed, one with a title that
\* needs escaping, has been persisted and loads back as itself.
C14_Witness ==
    /\ Running
    /\ Len(todos) = 2
    /\ todos[1].title = <<"\"">>
    /\ todos[1].completed /\ ~todos[2].completed
    /\ localStorage = saveTodos(todos)
    /\ LoadedList = todos

\* The step gives every task whose id is id the trimmed draft as title and
\* changes nothing else of the list: length, order, ids, completed flags
\* and the titles of the other tasks are as before.
RetitlesMatching(id) ==
    /\ Len(todos') = Len(todos)
    /\ \A i \in 1..Len(todos) :
         /\ todos'[i].id = todos[i].id
         /\ todos'[i].completed = todos[i].completed
         /\ IF todos[i].id = id
            THEN IsTrimOf(todos'[i].title, editValue)
            ELSE todos'[i].title = todos[i].title

\* The step ends outside edit mode with the draft cleared.
LeavesEditMode == editingId' = NoEdit /\ editValue' = <<>>

\* What a commit of the current draft for id may end in.
CommitsDraft(id) ==
    /\ LeavesEditMode
    /\ (\E i \in 1..Len(editValue) : ~IsSpace(editValue[i])) => RetitlesMatching(id)

\* C15: CommitEdit(id) can be taken with any id and always ends outside
\* edit mode with the draft cleared; when the trimmed draft is non-empty it
\* sets the title of the tasks whose id is id to the trimmed draft and
\* leaves their id, completed flag and position, and every other task,
\* unchanged. Enter in the edit input and its blur are that same commit.
\* No step of the view leaves edit mode with a draft still held.
C15_CommitEdit ==
    /\ [](Running =>
            \A id \in Ids :
                /\ ENABLED handleEditSubmit(id)
                /\ ~ENABLED (handleEditSubmit(id) /\ ~CommitsDraft(id))
                /\ ~ENABLED (handleEditKeyDown("Enter", id) /\ ~CommitsDraft(id))
                /\ ~ENABLED (handleEditBlur(id) /\ ~CommitsDraft(id)))
    /\ [][(editingId # NoEdit /\ editingId' = NoEdit) => editValue' = <<>>]_vars

\* C15's case: the second of two tasks is edited with a draft that has
\* whitespace around its text, and committing it retitles that task only.
C15_Witness ==
    /\ Running
    /\ Len(todos) = 2
    /\ todos[1].id # todos[2].id
    /\ editingId = todos[2].id
    /\ editValue = <<" ", "a", " ">>
    /\ todos[2].title = <<"\"">>
    /\ ENABLED (/\ handleEditSubmit(editingId)
                /\ todos'[2].title = <<"a">>
                /\ todos'[1] = todos[1]
                /\ editingId' = NoEdit)

\* The positions of the tasks that are in edit mode: editingId === todo.id.
InEditMode == { i \in 1..Len(todos) : editingId # NoEdit /\ todos[i].id = editingId }

\* The step makes todo the edited task with its committed title as draft,
\* and changes no task.
BeginsEditOf(todo) ==
    /\ editingId' = todo.id
    /\ editValue' = todo.title
    /\ todos' = todos
    /\ localStorage' = localStorage

\* C16: at most one task is in edit mode in any state; BeginEdit(task) can
\* be taken for every task, makes it the edited one with its committed
\* title as draft, and changes no task's title, whatever was being edited.
C16_AtMostOneInEditMode ==
    Running =>
        /\ Cardinality(InEditMode) <= 1
        /\ \A i \in 1..Len(todos) :
             /\ ENABLED handleEditStart(todos[i])
             /\ ~ENABLED (handleEditStart(todos[i]) /\ ~BeginsEditOf(todos[i]))

\* The step leaves the list and what storage holds as they were.
KeepsListAndStorage == todos' = todos /\ localStorage' = localStorage

\* C17: SetFilter, BeginEdit, ChangeDraft and CancelEdit (Escape) can be
\* taken and leave the task list and the stored value unchanged; Escape
\* also leaves edit mode with the draft dropped; SetFilter also leaves the
\* edit state unchanged. Storage holds the serialized list and nothing
\* else, so never the filter, and the first render of a session sets the
\* filter to All.
C17_NonMutatingOperations ==
    /\ [](Running =>
            /\ localStorage = saveTodos(todos)
            /\ \A f \in Filters :
                 /\ ENABLED setCurrentFilter(f)
                 /\ ~ENABLED (setCurrentFilter(f) /\
                                ~(/\ KeepsListAndStorage
                                  /\ filter' = f
                                  /\ editingId' = editingId
                                  /\ editValue' = editValue))
            /\ \A i \in 1..Len(todos) :
                 /\ ENABLED handleEditStart(todos[i])
                 /\ ~ENABLED (handleEditStart(todos[i]) /\ ~KeepsListAndStorage)
            /\ \A value \in Texts :
                 /\ ENABLED handleEditChange(value)
                 /\ ~ENABLED (handleEditChange(value) /\
                                ~(KeepsListAndStorage /\ editValue' = value))
            /\ \A id \in Ids :
                 /\ ENABLED handleEditKeyDown("Escape", id)
                 /\ ~ENABLED (handleEditKeyDown("Escape", id) /\
                                ~(KeepsListAndStorage /\ LeavesEditMode)))
    /\ [][phase = "boot" /\ phase' = "running" => filter' = "All"]_vars

\* C17's case: under a filter other than All a task is edited with a
\* draft that differs from its title, and Escape drops the draft.
C17_Witness ==
    /\ Running
    /\ filter = "Completed"
    /\ Len(todos) = 2
    /\ editingId = todos[1].id
    /\ editValue # <<>>
    /\ trim(editValue) # todos[1].title
    /\ ENABLED (/\ handleEditKeyDown("Escape", editingId)
                /\ todos' = todos
                /\ editingId' = NoEdit)

\* C18: while an edit is in progress the view offers no double click on a
\* label and no click on a toggle, for any row; so no view-generated event
\* taken during an edit starts another edit: it ends with the same task
\* edited or with none.
C18_NoBeginEditWhileEditing ==
    (Running /\ editingId # NoEdit) =>
        /\ ~ShowsViewControls
        /\ ~ENABLED DoubleClickLabel
        /\ ~ENABLED ClickToggle
        /\ ~ENABLED (Next /\ editingId' # NoEdit /\ editingId' # editingId)

\* C18's case: one of two rows on display is being edited, with its draft
\* changed and uncommitted, and the other row's task could be handed to
\* handleEditStart, but no event of the view does so.
C18_Witness ==
    /\ Running
    /\ Len(filteredTodos) = 2
    /\ todos[1].id # todos[2].id
    /\ editingId = todos[1].id
    /\ editValue # todos[1].title
    /\ ENABLED (handleEditStart(todos[2]) /\ editingId' = todos[2].id)
    /\ ~ENABLED DoubleClickLabel

\* C19: in every state where an edit is in progress, editingId is the id
\* of a task of the list.
C19_EditedTaskExists ==
    (Running /\ editingId # NoEdit) =>
        \E i \in 1..Len(todos) : todos[i].id = editingId

\* C20: in every state where an edit is in progress the edited task is on
\* display under the current filter, so its edit input is rendered and the
\* view offers an event on it (Enter, Escape or blur) that leaves edit mode.
C20_EditCanBeLeft ==
    (Running /\ editingId # NoEdit) =>
        /\ \E i \in Rows : ShowsEditInput(i)
        /\ ENABLED (KeyDownEdit /\ editingId' = NoEdit)
        /\ ENABLED (BlurEdit /\ editingId' = NoEdit)

====
